---- MODULE Spec2Model ----
(***************************************************************************)
(* Flux backend: the budget / goal aggregation engine.                     *)
(*                                                                         *)
(* Ledger (expenses), budgets with their cached `spent` and alert          *)
(* thresholds, and savings goals with their contribution log, as the       *)
(* controllers and mongoose models under src/ maintain them.               *)
(*                                                                         *)
(* Time is counted in whole days.  Amounts are integers; the budget limit  *)
(* used is a power of two, so spent / amount * 100 is exact in IEEE        *)
(* doubles and the cross-multiplied comparisons below agree with the       *)
(* JavaScript ones on every input enumerated here.                         *)
(***************************************************************************)
EXTENDS Integers, Sequences, FiniteSets, TLC

VARIABLES
    now,            \* the clock every `new Date()` reads
    expenses,       \* Expense collection: id -> document
    budgets,        \* Budget collection: id -> document
    totalExpenses,  \* User.stats.totalExpenses of the (single) user
    goals,          \* Goal collection: id -> document
    reqs,           \* in-flight requests: slot -> handler position and locals
    incomes,        \* Income collection: id -> document
    currentIncome   \* User.stats.currentIncome of the (single) user

vars == <<now, expenses, budgets, totalExpenses, goals, reqs, incomes,
          currentIncome>>

----------------------------------------------------------------------------
(* Bounds *)

MaxTime == 1

(* Program constants *)
MonthlyLimit == 100
WeekDays == 7
MonthDays == 30
YearDays == 365

NoDate == 0 - 1
NoBudget == "none"

Users == {"u1"}
Categories == {"food", "travel"}
BudgetCategories == {"food", "total"}
Statuses == {"completed", "pending"}
ExpenseAmounts == {2, 3}
BudgetAmounts == {4}
UpdatedAmounts == {2}
Periods == {"weekly", "monthly", "yearly"}
DefaultThresholds == <<50, 75, 90, 100>>

Dates == {0, 1}
OptDates == Dates \cup {NoDate}
ExpenseIds == {"e1", "e2"}
BudgetIds == {"b1", "b2"}
LedgerBudgetIds == {"b1"}
LedgerPeriods == {"monthly"}
LedgerEndDates == {NoDate, 0}
ReqIds == {"r1", "r2"}

Min(a, b) == IF a <= b THEN a ELSE b
Max(a, b) == IF a >= b THEN a ELSE b

Idle == [op |-> "idle"]

\* Quotients are kept exact, as a fraction in lowest terms: n / d with d > 0.
\* (The rounding of a quotient to a double is not represented.)
RECURSIVE GCD(_, _)
GCD(a, b) == IF b = 0 THEN a ELSE GCD(b, a % b)

Divide(n, d) == LET g == GCD(n, d) IN [num |-> n \div g, den |-> d \div g]

Add(x, y) == Divide(x.num * y.den + y.num * x.den, x.den * y.den)

\* stats.currentIncome of a new user: annual and monthly default to 0.
NoIncome == [annual |-> 0, monthly |-> Divide(0, 1)]

----------------------------------------------------------------------------
(* Budget model (src/src/models/Budget.js) *)

\* percentageUsed >= p, with percentageUsed = Math.min(100, spent / amount * 100).
\* amount = 0 gives Infinity (spent > 0, capped to 100) or NaN (spent = 0, every
\* comparison false).
PercentageUsedAtLeast(doc, p) ==
    IF doc.amount = 0
    THEN doc.spent > 0 /\ 100 >= p
    ELSE Min(100 * doc.amount, doc.spent * 100) >= p * doc.amount

\* pre('save'): materialise the default thresholds when none are set.
PreSaveBudget(doc) ==
    IF Len(doc.thresholds) = 0
    THEN [doc EXCEPT !.thresholds =
            [i \in 1 .. Len(DefaultThresholds) |->
                [percentage |-> DefaultThresholds[i], triggered |-> FALSE,
                 triggeredAt |-> NoDate]]]
    ELSE doc

\* CheckThreshold as a re-evaluation in both directions: the flag follows the
\* current percentage, so a falling percentage clears it.
CheckThresholdBothWays(doc, th, t) ==
    IF PercentageUsedAtLeast(doc, th.percentage)
    THEN (IF th.triggered THEN th
          ELSE [th EXCEPT !.triggered = TRUE, !.triggeredAt = t])
    ELSE [th EXCEPT !.triggered = FALSE, !.triggeredAt = NoDate]

\* One pass of the threshold loop of updateSpent over threshold th.
CheckThreshold(doc, th, t) ==
    IF ~th.triggered /\ PercentageUsedAtLeast(doc, th.percentage)
    THEN [th EXCEPT !.triggered = TRUE, !.triggeredAt = t]
    ELSE th

\* updateSpent without the Math.max(0, ...) floor.
UpdateSpentUnclamped(doc, newExpenseAmount, oldExpenseAmount, t) ==
    LET difference == newExpenseAmount - oldExpenseAmount
        d1 == [doc EXCEPT !.spent = doc.spent + difference]
    IN  [d1 EXCEPT !.thresholds =
            [i \in 1 .. Len(d1.thresholds) |-> CheckThreshold(d1, d1.thresholds[i], t)]]

\* updateSpent(newExpenseAmount, oldExpenseAmount): the document it saves.
UpdateSpent(doc, newExpenseAmount, oldExpenseAmount, t) ==
    LET difference == newExpenseAmount - oldExpenseAmount
        d1 == [doc EXCEPT !.spent = Max(0, doc.spent + difference)]
    IN  [d1 EXCEPT !.thresholds =
            [i \in 1 .. Len(d1.thresholds) |-> CheckThreshold(d1, d1.thresholds[i], t)]]

----------------------------------------------------------------------------
(* Ledger queries *)

RECURSIVE SumAmounts(_, _)
SumAmounts(E, ids) ==
    IF ids = {} THEN 0
    ELSE LET e == CHOOSE x \in ids : TRUE
         IN  E[e].amount + SumAmounts(E, ids \ {e})

\* The $match stage of recalculateBudgetSpending.
MatchingExpenses(E, doc) ==
    {e \in DOMAIN E :
        /\ E[e].user = doc.user
        /\ (doc.category = "total" \/ E[e].category = doc.category)
        /\ E[e].date >= doc.startDate
        /\ E[e].date <= doc.endDate
        /\ E[e].status = "completed"}

LedgerSpent(E, doc) == SumAmounts(E, MatchingExpenses(E, doc))

\* ResetThreshold with <= for <: a threshold exactly reached is cleared too.
ResetThresholdInclusive(doc, th) ==
    IF doc.spent * 100 <= th.percentage * doc.amount
    THEN [th EXCEPT !.triggered = FALSE, !.triggeredAt = NoDate]
    ELSE th

\* The reset loop of recalculateBudgetSpending over threshold th.
ResetThreshold(doc, th) ==
    IF doc.spent * 100 < th.percentage * doc.amount
    THEN [th EXCEPT !.triggered = FALSE, !.triggeredAt = NoDate]
    ELSE th

\* recalculateBudgetSpending adding the ledger sum to the stored spent instead of
\* replacing it.
RecalculateBudgetSpendingAdding(E, doc) ==
    LET d1 == [doc EXCEPT !.spent = doc.spent + LedgerSpent(E, doc)]
    IN  IF d1.spent < d1.amount
        THEN [d1 EXCEPT !.thresholds =
                [i \in 1 .. Len(d1.thresholds) |-> ResetThreshold(d1, d1.thresholds[i])]]
        ELSE d1

\* recalculateBudgetSpending(budget): the document it saves.
RecalculateBudgetSpending(E, doc) ==
    LET d1 == [doc EXCEPT !.spent = LedgerSpent(E, doc)]
    IN  IF d1.spent < d1.amount
        THEN [d1 EXCEPT !.thresholds =
                [i \in 1 .. Len(d1.thresholds) |-> ResetThreshold(d1, d1.thresholds[i])]]
        ELSE d1

\* The filter of Budget.findOne in updateBudgetSpending: the active budgets of the
\* user in the category whose window contains the current time.
CurrentBudgets(B, user, category, t) ==
    {b \in DOMAIN B :
        /\ B[b].user = user
        /\ B[b].category = category
        /\ B[b].isActive
        /\ B[b].startDate <= t
        /\ B[b].endDate >= t}

\* What findOne may return: one of the matches, or null when there is none.
FindOne(matches) == IF matches = {} THEN {NoBudget} ELSE matches

\* `if (budget) await budget.updateSpent(amount, 0)`
ApplyDelta(B, b, amount, t) ==
    IF b = NoBudget THEN B
    ELSE [B EXCEPT ![b] = UpdateSpent(B[b], amount, 0, t)]

\* updateBudgetSpending(userId, category, amount) with cb and tb the documents the
\* two findOne calls returned.
UpdateBudgetSpending(B, cb, tb, amount, t) ==
    ApplyDelta(ApplyDelta(B, cb, amount, t), tb, amount, t)

\* getEndDateForPeriod(period)
GetEndDateForPeriod(period, t) ==
    CASE period = "weekly" -> t + WeekDays
      [] period = "yearly" -> t + YearDays
      [] OTHER -> (t \div MonthDays) * MonthDays + (MonthDays - 1)

\* The overlap filter of createBudget / duplicateBudget against window [s, e].
OverlappingBudgets(B, user, category, s, e) ==
    {b \in DOMAIN B :
        /\ B[b].user = user
        /\ B[b].category = category
        /\ B[b].isActive
        /\ B[b].startDate <= e
        /\ B[b].endDate >= s}

FreshExpenseId(E) == CHOOSE e \in ExpenseIds \ DOMAIN E :
                        \A f \in ExpenseIds \ DOMAIN E : e = "e1" \/ f # "e1"

FreshBudgetId(B, ids) == CHOOSE b \in ids \ DOMAIN B :
                            \A c \in ids \ DOMAIN B : b = "b1" \/ c # "b1"

----------------------------------------------------------------------------
(* Initial state: empty collections, no request in flight *)

Init ==
    /\ now = 0
    /\ expenses = << >>
    /\ budgets = << >>
    /\ totalExpenses = 0
    /\ goals = << >>
    /\ reqs = [r \in ReqIds |-> Idle]
    /\ incomes = << >>
    /\ currentIncome = NoIncome

----------------------------------------------------------------------------
(* Requests run to completion (expense and budget controllers) *)

\* createExpense
CreateExpense(user, amount, category, date) ==
    /\ amount > 0
    /\ totalExpenses < MonthlyLimit
    /\ ExpenseIds \ DOMAIN expenses # {}
    /\ LET id == FreshExpenseId(expenses)
           expense == [user |-> user, amount |-> amount, category |-> category,
                       date |-> IF date = NoDate THEN now ELSE date,
                       status |-> "completed"]
       IN  /\ expenses' = expenses @@ (id :> expense)
           /\ totalExpenses' = totalExpenses + 1
           /\ \E cb \in FindOne(CurrentBudgets(budgets, user, expense.category, now)),
                 tb \in FindOne(CurrentBudgets(budgets, user, "total", now)) :
                budgets' = UpdateBudgetSpending(budgets, cb, tb, expense.amount, now)
    /\ UNCHANGED <<now, goals, reqs, incomes, currentIncome>>

\* updateExpense
UpdateExpense(user, id, amount, category, date, status) ==
    /\ id \in DOMAIN expenses
    /\ expenses[id].user = user
    /\ amount > 0
    /\ LET old == expenses[id]
           expense == [old EXCEPT !.amount = amount, !.category = category,
                                  !.date = date, !.status = status]
       IN  /\ expenses' = [expenses EXCEPT ![id] = expense]
           /\ IF old.amount # expense.amount \/ old.category # expense.category
              THEN \E cb1 \in FindOne(CurrentBudgets(budgets, user, old.category, now)),
                      tb1 \in FindOne(CurrentBudgets(budgets, user, "total", now)) :
                     LET B1 == UpdateBudgetSpending(budgets, cb1, tb1, 0 - old.amount, now)
                     IN  \E cb2 \in FindOne(CurrentBudgets(B1, user, expense.category, now)),
                            tb2 \in FindOne(CurrentBudgets(B1, user, "total", now)) :
                           budgets' = UpdateBudgetSpending(B1, cb2, tb2, expense.amount, now)
              ELSE budgets' = budgets
    /\ UNCHANGED <<now, totalExpenses, goals, reqs, incomes, currentIncome>>

\* deleteExpense
DeleteExpense(user, id) ==
    /\ id \in DOMAIN expenses
    /\ expenses[id].user = user
    /\ LET expense == expenses[id]
       IN  \E cb \in FindOne(CurrentBudgets(budgets, user, expense.category, now)),
              tb \in FindOne(CurrentBudgets(budgets, user, "total", now)) :
             budgets' = UpdateBudgetSpending(budgets, cb, tb, 0 - expense.amount, now)
    /\ totalExpenses' = totalExpenses - 1
    /\ expenses' = [e \in DOMAIN expenses \ {id} |-> expenses[e]]
    /\ UNCHANGED <<now, goals, reqs, incomes, currentIncome>>

\* The document Budget.create stores for createBudget.
NewBudget(user, category, amount, startDate, endDate, period, t) ==
    PreSaveBudget(
        [user |-> user, category |-> category, amount |-> amount,
         startDate |-> IF startDate = NoDate THEN t ELSE startDate,
         endDate |-> IF endDate = NoDate THEN GetEndDateForPeriod(period, t) ELSE endDate,
         spent |-> 0, thresholds |-> << >>, isActive |-> TRUE, autoRenew |-> TRUE])

\* The window createBudget checks for an existing budget.
CheckedWindow(startDate, endDate, t) ==
    [s |-> IF startDate = NoDate THEN t ELSE startDate,
     e |-> IF endDate = NoDate THEN t ELSE endDate]

\* createBudget
CreateBudget(ids, user, category, amount, startDate, endDate, period) ==
    /\ amount > 0
    /\ ids \ DOMAIN budgets # {}
    /\ LET w == CheckedWindow(startDate, endDate, now)
       IN  OverlappingBudgets(budgets, user, category, w.s, w.e) = {}
    /\ LET doc == NewBudget(user, category, amount, startDate, endDate, period, now)
       IN  budgets' = budgets @@
                (FreshBudgetId(budgets, ids) :> RecalculateBudgetSpending(expenses, doc))
    /\ UNCHANGED <<now, expenses, totalExpenses, goals, reqs, incomes, currentIncome>>

\* duplicateBudget
DuplicateBudget(ids, user, src, startDate, endDate) ==
    /\ src \in DOMAIN budgets
    /\ budgets[src].user = user
    /\ startDate # NoDate /\ endDate # NoDate
    /\ ids \ DOMAIN budgets # {}
    /\ OverlappingBudgets(budgets, user, budgets[src].category, startDate, endDate) = {}
    /\ LET doc == PreSaveBudget(
                    [budgets[src] EXCEPT !.startDate = startDate, !.endDate = endDate,
                                         !.spent = 0, !.isActive = TRUE])
       IN  budgets' = budgets @@ (FreshBudgetId(budgets, ids) :> doc)
    /\ UNCHANGED <<now, expenses, totalExpenses, goals, reqs, incomes, currentIncome>>

\* deleteBudget
DeleteBudget(user, b) ==
    /\ b \in DOMAIN budgets
    /\ budgets[b].user = user
    /\ budgets' = [c \in DOMAIN budgets \ {b} |-> budgets[c]]
    /\ UNCHANGED <<now, expenses, totalExpenses, goals, reqs, incomes, currentIncome>>

\* recalculateBudget
RecalculateBudget(user, b) ==
    /\ b \in DOMAIN budgets
    /\ budgets[b].user = user
    /\ budgets' = [budgets EXCEPT ![b] = RecalculateBudgetSpending(expenses, budgets[b])]
    /\ UNCHANGED <<now, expenses, totalExpenses, goals, reqs, incomes, currentIncome>>

\* updateBudget with a body that sets amount.
UpdateBudget(user, b, amount) ==
    /\ b \in DOMAIN budgets
    /\ budgets[b].user = user
    /\ amount >= 0
    /\ budgets' = [budgets EXCEPT ![b] = PreSaveBudget([@ EXCEPT !.amount = amount])]
    /\ UNCHANGED <<now, expenses, totalExpenses, goals, reqs, incomes, currentIncome>>

\* The clock advances by a day.
Tick ==
    /\ now < MaxTime
    /\ now' = now + 1
    /\ UNCHANGED <<expenses, budgets, totalExpenses, goals, reqs, incomes, currentIncome>>

\* The request bodies of updateExpense enumerated: those that set one field.
Patches(e) ==
    {[e EXCEPT !.amount = a] : a \in ExpenseAmounts}
    \cup {[e EXCEPT !.category = c] : c \in Categories}
    \cup {[e EXCEPT !.date = d] : d \in Dates}
    \cup {[e EXCEPT !.status = st] : st \in Statuses}

Next ==
    \/ \E u \in Users, a \in ExpenseAmounts, c \in Categories, d \in OptDates :
          CreateExpense(u, a, c, d)
    \/ \E u \in Users, id \in DOMAIN expenses :
          \E p \in Patches(expenses[id]) :
             UpdateExpense(u, id, p.amount, p.category, p.date, p.status)
    \/ \E u \in Users, id \in ExpenseIds : DeleteExpense(u, id)
    \/ \E u \in Users, c \in BudgetCategories, a \in BudgetAmounts,
          s \in OptDates, e \in LedgerEndDates, p \in LedgerPeriods :
          CreateBudget(LedgerBudgetIds, u, c, a, s, e, p)
    \/ \E u \in Users, b \in BudgetIds : DeleteBudget(u, b)
    \/ \E u \in Users, b \in BudgetIds : RecalculateBudget(u, b)
    \/ \E u \in Users, b \in BudgetIds, a \in UpdatedAmounts : UpdateBudget(u, b, a)
    \/ Tick

Spec == Init /\ [][Next]_vars

----------------------------------------------------------------------------
(* Properties of the expense / budget controllers, requests run to completion *)

\* The budget's scope as the ledger sees it: owner, category (or "total") and the
\* expense's own date inside [startDate, endDate].
InScope(doc, x) ==
    /\ x.user = doc.user
    /\ (doc.category = "total" \/ x.category = doc.category)
    /\ x.date >= doc.startDate
    /\ x.date <= doc.endDate

\* The expenses a step created, changed or deleted.
Touched ==
    {e \in DOMAIN expenses \cup DOMAIN expenses' :
        \/ e \notin DOMAIN expenses
        \/ e \notin DOMAIN expenses'
        \/ expenses[e] # expenses'[e]}

\* A step that mutates the ledger, every expense it touches being inside the scope
\* of doc before and after.
LedgerStepWithin(doc) ==
    /\ Touched # {}
    /\ \A e \in Touched :
          /\ e \in DOMAIN expenses => InScope(doc, expenses[e])
          /\ e \in DOMAIN expenses' => InScope(doc, expenses'[e])

Converged(B, E, b) == B[b].spent = LedgerSpent(E, B[b])

\* C1 (as claimed): Convergence.  An expense create, update or delete inside a
\* budget's window and category keeps the incrementally maintained spent equal to
\* what recalculateBudgetSpending computes from the ledger.
C1_Convergence ==
    [][\A b \in DOMAIN budgets :
          (/\ b \in DOMAIN budgets'
           /\ LedgerStepWithin(budgets[b])
           /\ Converged(budgets, expenses, b))
          => Converged(budgets', expenses', b)]_vars

\* C4: a step that mutates the ledger (createExpense, updateExpense, deleteExpense:
\* the callers of Budget.updateSpent) never turns a threshold's triggered flag from
\* true to false, whatever the delta.
C4_UpdateSpentNeverClears ==
    [][expenses' # expenses =>
          \A b \in DOMAIN budgets \cap DOMAIN budgets' :
             \A i \in 1 .. Len(budgets[b].thresholds) :
                budgets[b].thresholds[i].triggered
                   => budgets'[b].thresholds[i].triggered]_vars

\* C4 witness: a negative delta has brought percentageUsed below a threshold that
\* is still triggered, on a budget whose spent agrees with the ledger.
C4_Witness ==
    \E b \in DOMAIN budgets :
        /\ Converged(budgets, expenses, b)
        /\ budgets[b].spent > 0
        /\ \E i \in 1 .. Len(budgets[b].thresholds) :
              /\ budgets[b].thresholds[i].triggered
              /\ ~PercentageUsedAtLeast(budgets[b], budgets[b].thresholds[i].percentage)

\* C5: recalculateBudget stores the ledger sum as spent, clears (triggered false,
\* triggeredAt unset) exactly the thresholds whose percentage is greater than
\* spent / amount x 100, and leaves every other threshold as it was.
C5_RecomputeClearsExactly ==
    [][\A u \in Users, b \in DOMAIN budgets :
          RecalculateBudget(u, b) =>
             LET old == budgets[b]
                 new == budgets'[b]
             IN  /\ new.spent = LedgerSpent(expenses, old)
                 /\ \A i \in 1 .. Len(old.thresholds) :
                       IF old.thresholds[i].percentage * new.amount > new.spent * 100
                       THEN /\ ~new.thresholds[i].triggered
                            /\ new.thresholds[i].triggeredAt = NoDate
                       ELSE new.thresholds[i] = old.thresholds[i]]_vars

\* C5 witness: a budget on which recalculation has work of both kinds: one
\* triggered threshold above the ledger percentage (to clear) and one triggered
\* threshold at or below it (to keep).
C5_Witness ==
    \E b \in DOMAIN budgets :
        LET doc == budgets[b]
            led == LedgerSpent(expenses, doc)
        IN  /\ \E i \in 1 .. Len(doc.thresholds) :
                  /\ doc.thresholds[i].triggered
                  /\ doc.thresholds[i].percentage * doc.amount > led * 100
            /\ \E i \in 1 .. Len(doc.thresholds) :
                  /\ doc.thresholds[i].triggered
                  /\ doc.thresholds[i].percentage * doc.amount <= led * 100

\* C7 (as claimed): only completed expenses count.  An updateExpense that changes
\* nothing but the status of an expense re-evaluates every budget that matches it
\* (by the expense's date and by the current time), so spent stays the sum of the
\* completed expenses.
C7_StatusChangeReevaluates ==
    [][\A e \in DOMAIN expenses \cap DOMAIN expenses', b \in DOMAIN budgets :
          (/\ Touched = {e}
           /\ expenses'[e] = [expenses[e] EXCEPT !.status = expenses'[e].status]
           /\ b \in CurrentBudgets(budgets, expenses[e].user, budgets[b].category, now)
           /\ InScope(budgets[b], expenses[e])
           /\ Converged(budgets, expenses, b))
          => Converged(budgets', expenses', b)]_vars

\* C8 (as claimed): creating or deleting an expense applies its amount to every
\* budget of the owner whose category matches and whose window contains the
\* expense's own date, and to no budget whose window does not contain that date.
C8_DeltaFollowsExpenseDate ==
    [][/\ \A e \in DOMAIN expenses' \ DOMAIN expenses, b \in DOMAIN budgets :
             budgets'[b].spent =
                IF InScope(budgets[b], expenses'[e])
                THEN budgets[b].spent + expenses'[e].amount
                ELSE budgets[b].spent
       /\ \A e \in DOMAIN expenses \ DOMAIN expenses', b \in DOMAIN budgets :
             budgets'[b].spent =
                IF InScope(budgets[b], expenses[e])
                THEN Max(0, budgets[b].spent - expenses[e].amount)
                ELSE budgets[b].spent]_vars

----------------------------------------------------------------------------
(* Budget creation with its storage awaits as separate steps *)

Pending(op) == {r \in ReqIds : reqs[r].op = op}

\* createBudget up to and including its Budget.findOne overlap check.
BeginCreateBudget(r, user, category, amount, startDate, endDate, period) ==
    /\ reqs[r] = Idle
    /\ amount > 0
    /\ Cardinality(DOMAIN budgets) + Cardinality(Pending("createBudget"))
          + Cardinality(Pending("duplicateBudget")) < Cardinality(BudgetIds)
    /\ LET w == CheckedWindow(startDate, endDate, now)
       IN  OverlappingBudgets(budgets, user, category, w.s, w.e) = {}
    /\ reqs' = [reqs EXCEPT ![r] =
                  [op |-> "createBudget", user |-> user, category |-> category,
                   amount |-> amount, startDate |-> startDate, endDate |-> endDate,
                   period |-> period]]
    /\ UNCHANGED <<now, expenses, budgets, totalExpenses, goals, incomes, currentIncome>>

\* createBudget from Budget.create on.
FinishCreateBudget(r) ==
    /\ reqs[r].op = "createBudget"
    /\ LET q == reqs[r]
           doc == NewBudget(q.user, q.category, q.amount, q.startDate, q.endDate,
                            q.period, now)
       IN  budgets' = budgets @@
                (FreshBudgetId(budgets, BudgetIds) :> RecalculateBudgetSpending(expenses, doc))
    /\ reqs' = [reqs EXCEPT ![r] = Idle]
    /\ UNCHANGED <<now, expenses, totalExpenses, goals, incomes, currentIncome>>

\* duplicateBudget up to and including its overlap check.
BeginDuplicateBudget(r, user, src, startDate, endDate) ==
    /\ reqs[r] = Idle
    /\ src \in DOMAIN budgets
    /\ budgets[src].user = user
    /\ startDate # NoDate /\ endDate # NoDate
    /\ Cardinality(DOMAIN budgets) + Cardinality(Pending("createBudget"))
          + Cardinality(Pending("duplicateBudget")) < Cardinality(BudgetIds)
    /\ OverlappingBudgets(budgets, user, budgets[src].category, startDate, endDate) = {}
    /\ reqs' = [reqs EXCEPT ![r] =
                  [op |-> "duplicateBudget", sourceBudget |-> budgets[src],
                   startDate |-> startDate, endDate |-> endDate]]
    /\ UNCHANGED <<now, expenses, budgets, totalExpenses, goals, incomes, currentIncome>>

\* duplicateBudget from Budget.create on.
FinishDuplicateBudget(r) ==
    /\ reqs[r].op = "duplicateBudget"
    /\ LET q == reqs[r]
           doc == PreSaveBudget(
                    [q.sourceBudget EXCEPT !.startDate = q.startDate,
                                           !.endDate = q.endDate,
                                           !.spent = 0, !.isActive = TRUE])
       IN  budgets' = budgets @@ (FreshBudgetId(budgets, BudgetIds) :> doc)
    /\ reqs' = [reqs EXCEPT ![r] = Idle]
    /\ UNCHANGED <<now, expenses, totalExpenses, goals, incomes, currentIncome>>

NextOverlap ==
    \/ \E r \in ReqIds, u \in Users, c \in BudgetCategories, a \in BudgetAmounts,
          s \in OptDates, e \in OptDates, p \in LedgerPeriods :
          BeginCreateBudget(r, u, c, a, s, e, p)
    \/ \E r \in ReqIds : FinishCreateBudget(r)
    \/ \E r \in ReqIds, u \in Users, b \in BudgetIds, s \in Dates, e \in Dates :
          BeginDuplicateBudget(r, u, b, s, e)
    \/ \E r \in ReqIds : FinishDuplicateBudget(r)
    \/ \E u \in Users, b \in BudgetIds : DeleteBudget(u, b)
    \/ Tick

SpecOverlap == Init /\ [][NextOverlap]_vars

\* C6 (as claimed): no two active budgets of one user and one category have
\* overlapping [startDate, endDate] windows.
C6_NoOverlappingActiveBudgets ==
    \A a \in DOMAIN budgets, b \in DOMAIN budgets :
        (/\ a # b
         /\ budgets[a].user = budgets[b].user
         /\ budgets[a].category = budgets[b].category
         /\ budgets[a].isActive /\ budgets[b].isActive
         /\ budgets[a].startDate <= budgets[a].endDate
         /\ budgets[b].startDate <= budgets[b].endDate)
        => ~(/\ budgets[a].startDate <= budgets[b].endDate
             /\ budgets[b].startDate <= budgets[a].endDate)

----------------------------------------------------------------------------
(* Expense creation with its storage awaits as separate steps *)

\* What document.save() sends for a budget: the paths the request modified since
\* it loaded the document, each as an absolute value.
SaveBudget(stored, loaded, modified) ==
    [stored EXCEPT
        !.spent = IF modified.spent # loaded.spent THEN modified.spent ELSE @,
        !.thresholds =
            [i \in 1 .. Len(stored.thresholds) |->
                IF i <= Len(loaded.thresholds)
                   /\ modified.thresholds[i] # loaded.thresholds[i]
                THEN modified.thresholds[i]
                ELSE stored.thresholds[i]]]

\* createExpense up to the call of updateBudgetSpending.
BeginCreateExpense(r, user, amount, category, date) ==
    /\ reqs[r] = Idle
    /\ amount > 0
    /\ totalExpenses < MonthlyLimit
    /\ ExpenseIds \ DOMAIN expenses # {}
    /\ LET expense == [user |-> user, amount |-> amount, category |-> category,
                       date |-> IF date = NoDate THEN now ELSE date,
                       status |-> "completed"]
       IN  /\ expenses' = expenses @@ (FreshExpenseId(expenses) :> expense)
           /\ reqs' = [reqs EXCEPT ![r] =
                         [op |-> "createExpense", pc |-> "findCategory",
                          user |-> user, category |-> expense.category,
                          amount |-> expense.amount]]
    /\ totalExpenses' = totalExpenses + 1
    /\ UNCHANGED <<now, budgets, goals, incomes, currentIncome>>

\* updateBudgetSpending: one of its two Budget.findOne calls.
FindBudget(r) ==
    /\ reqs[r].op = "createExpense"
    /\ reqs[r].pc \in {"findCategory", "findTotal"}
    /\ LET q == reqs[r]
           category == IF q.pc = "findCategory" THEN q.category ELSE "total"
       IN  \E b \in FindOne(CurrentBudgets(budgets, q.user, category, now)) :
              reqs' = [reqs EXCEPT ![r] =
                 IF b # NoBudget
                 THEN [op |-> q.op, user |-> q.user, category |-> q.category,
                       amount |-> q.amount, budget |-> b, doc |-> budgets[b],
                       pc |-> IF q.pc = "findCategory" THEN "saveCategory"
                              ELSE "saveTotal"]
                 ELSE IF q.pc = "findCategory"
                 THEN [q EXCEPT !.pc = "findTotal"]
                 ELSE Idle]
    /\ UNCHANGED <<now, expenses, budgets, totalExpenses, goals, incomes, currentIncome>>

\* updateBudgetSpending: budget.updateSpent(amount, 0) on the document found.
SaveFoundBudget(r) ==
    /\ reqs[r].op = "createExpense"
    /\ reqs[r].pc \in {"saveCategory", "saveTotal"}
    /\ LET q == reqs[r]
           modified == UpdateSpent(q.doc, q.amount, 0, now)
       IN  /\ budgets' = IF q.budget \in DOMAIN budgets
                         THEN [budgets EXCEPT ![q.budget] =
                                 SaveBudget(budgets[q.budget], q.doc, modified)]
                         ELSE budgets
           /\ reqs' = [reqs EXCEPT ![r] =
                 IF q.pc = "saveCategory"
                 THEN [op |-> q.op, pc |-> "findTotal", user |-> q.user,
                       category |-> q.category, amount |-> q.amount]
                 ELSE Idle]
    /\ UNCHANGED <<now, expenses, totalExpenses, goals, incomes, currentIncome>>

\* A current budget exists (created by createBudget on day 0, no expense yet).
InitRace ==
    /\ now = 0
    /\ expenses = << >>
    /\ \E c \in BudgetCategories, p \in Periods :
          budgets = ("b1" :> NewBudget("u1", c, 4, NoDate, NoDate, p, 0))
    /\ totalExpenses = 0
    /\ goals = << >>
    /\ reqs = [r \in ReqIds |-> Idle]
    /\ incomes = << >>
    /\ currentIncome = NoIncome

NextRace ==
    \/ \E r \in ReqIds, u \in Users, a \in ExpenseAmounts, c \in Categories :
          BeginCreateExpense(r, u, a, c, NoDate)
    \/ \E r \in ReqIds : FindBudget(r)
    \/ \E r \in ReqIds : SaveFoundBudget(r)

SpecRace == InitRace /\ [][NextRace]_vars

Quiescent == \A r \in ReqIds : reqs[r] = Idle

\* C9 (as claimed): lost-update freedom for budgets.  Once the interleaved
\* createExpense requests have completed, the budget's spent reflects every delta:
\* it is the sum of the expenses created in its window and category.
C9_BothDeltasApplied ==
    Quiescent => \A b \in DOMAIN budgets : Converged(budgets, expenses, b)

----------------------------------------------------------------------------
(* Savings goals.  Every deadline is taken to lie after the last modelled day,
   so the deadline validator accepts every save; a month is MonthDays days. *)

QuarterDays == 90
MaxContributions == 4
GoalIds == {"g1"}
GoalTargets == {2, 3}
InitialAmounts == {0, 1, 3}
ContributionAmounts == {1, 2}
GoalHorizon == MaxTime * WeekDays
NoAutoSave ==
    [enabled |-> FALSE, amount |-> 0, frequency |-> "monthly", nextContribution |-> NoDate]
AutoSaves ==
    {NoAutoSave,
     [enabled |-> TRUE, amount |-> 1, frequency |-> "weekly", nextContribution |-> NoDate],
     [enabled |-> TRUE, amount |-> 0, frequency |-> "quarterly", nextContribution |-> NoDate]}

RECURSIVE SumLog(_)
SumLog(log) == IF log = << >> THEN 0 ELSE Head(log).amount + SumLog(Tail(log))

\* The min validators of the goal schema, run by save() before the pre-save hook.
ValidGoal(doc) ==
    /\ doc.targetAmount > 0
    /\ doc.currentAmount >= 0
    /\ doc.autoSave.amount >= 0
    /\ \A i \in 1 .. Len(doc.contributions) : doc.contributions[i].amount >= 0

\* calculateNextContribution returning the current date.
CalculateNextContributionToday(doc, t) ==
    IF ~doc.autoSave.enabled THEN NoDate ELSE t

CalculateNextContribution(doc, t) ==
    IF ~doc.autoSave.enabled THEN NoDate
    ELSE IF doc.autoSave.frequency = "weekly" THEN t + WeekDays
    ELSE IF doc.autoSave.frequency = "quarterly" THEN t + QuarterDays
    ELSE t + MonthDays

PreSaveGoal(doc, t) ==
    LET d == IF doc.currentAmount >= doc.targetAmount /\ ~doc.isCompleted
             THEN [doc EXCEPT !.isCompleted = TRUE, !.completedAt = t]
             ELSE doc
    IN  IF d.autoSave.enabled /\ d.autoSave.nextContribution = NoDate
        THEN [d EXCEPT !.autoSave.nextContribution = CalculateNextContribution(d, t)]
        ELSE d

\* addContribution up to its save(); the caller has checked amount > 0.
AddContribution(doc, amount, source) ==
    LET newAmount == Min(doc.currentAmount + amount, doc.targetAmount)
    IN  [doc EXCEPT !.currentAmount = newAmount,
                    !.contributions =
                        Append(@, [amount |-> newAmount - doc.currentAmount,
                                   source |-> source])]

\* The update save() sends: $set of every scalar path that differs from the
\* loaded value, $push of the entries appended since the load.
WriteGoal(stored, loaded, modified) ==
    [stored EXCEPT
        !.targetAmount = IF modified.targetAmount # loaded.targetAmount
                         THEN modified.targetAmount ELSE @,
        !.currentAmount = IF modified.currentAmount # loaded.currentAmount
                          THEN modified.currentAmount ELSE @,
        !.isCompleted = IF modified.isCompleted # loaded.isCompleted
                        THEN modified.isCompleted ELSE @,
        !.completedAt = IF modified.completedAt # loaded.completedAt
                        THEN modified.completedAt ELSE @,
        !.isActive = IF modified.isActive # loaded.isActive
                     THEN modified.isActive ELSE @,
        !.autoSave = IF modified.autoSave # loaded.autoSave
                     THEN modified.autoSave ELSE @,
        !.contributions =
            @ \o SubSeq(modified.contributions, Len(loaded.contributions) + 1,
                        Len(modified.contributions))]

\* document.save(): validation, pre-save hook, write; a validation error writes
\* nothing.
SaveGoal(stored, loaded, modified, t) ==
    IF ValidGoal(modified)
    THEN WriteGoal(stored, loaded, PreSaveGoal(modified, t))
    ELSE stored

NewGoal(user, targetAmount, currentAmount, autoSave) ==
    [user |-> user, targetAmount |-> targetAmount, currentAmount |-> currentAmount,
     isCompleted |-> FALSE, completedAt |-> NoDate, autoSave |-> autoSave,
     contributions |-> << >>, isActive |-> TRUE]

FreshGoalId(G) == CHOOSE g \in GoalIds : g \notin DOMAIN G

CreateGoal(user, targetAmount, currentAmount, autoSave) ==
    /\ targetAmount > 0
    /\ currentAmount >= 0
    /\ GoalIds \ DOMAIN goals # {}
    /\ LET goal == PreSaveGoal(NewGoal(user, targetAmount, currentAmount, autoSave), now)
       IN  goals' = goals @@ (FreshGoalId(goals) :>
              IF currentAmount > 0
              THEN SaveGoal(goal, goal, AddContribution(goal, currentAmount, "manual"), now)
              ELSE goal)
    /\ UNCHANGED <<now, expenses, budgets, totalExpenses, reqs, incomes, currentIncome>>

\* The checks of contributeToGoal on the document its findOne returned.
MayContribute(G, user, g, amount) ==
    /\ amount > 0
    /\ g \in DOMAIN G
    /\ G[g].user = user
    /\ G[g].isActive
    /\ ~G[g].isCompleted
    /\ amount <= G[g].targetAmount - G[g].currentAmount

ContributeToGoal(user, g, amount) ==
    /\ MayContribute(goals, user, g, amount)
    /\ goals' = [goals EXCEPT ![g] =
                    SaveGoal(@, @, AddContribution(@, amount, "manual"), now)]
    /\ UNCHANGED <<now, expenses, budgets, totalExpenses, reqs, incomes, currentIncome>>

UpdateGoal(user, g, field, value) ==
    /\ g \in DOMAIN goals
    /\ goals[g].user = user
    /\ ~goals[g].isCompleted
    /\ LET goal == IF field = "targetAmount"
                   THEN [goals[g] EXCEPT !.targetAmount = value]
                   ELSE [goals[g] EXCEPT !.autoSave = value]
       IN  goals' = [goals EXCEPT ![g] = SaveGoal(@, @, goal, now)]
    /\ UNCHANGED <<now, expenses, budgets, totalExpenses, reqs, incomes, currentIncome>>

DeleteGoal(user, g) ==
    /\ g \in DOMAIN goals
    /\ goals[g].user = user
    /\ goals' = [goals EXCEPT ![g] = SaveGoal(@, @, [@ EXCEPT !.isActive = FALSE], now)]
    /\ UNCHANGED <<now, expenses, budgets, totalExpenses, reqs, incomes, currentIncome>>

FindAutoSaveDue(G, t) ==
    {g \in DOMAIN G :
        /\ G[g].autoSave.enabled
        /\ G[g].autoSave.nextContribution # NoDate
        /\ G[g].autoSave.nextContribution <= t
        /\ ~G[g].isCompleted
        /\ G[g].isActive}

\* The body of processAutoSave's loop for one due goal.
AutoSaveGoal(goal, t) ==
    LET contributed == AddContribution(goal, goal.autoSave.amount, "auto-save")
    IN  IF goal.autoSave.amount <= 0 \/ ~ValidGoal(contributed)
        THEN goal
        ELSE LET saved == SaveGoal(goal, goal, contributed, t)
             IN  SaveGoal(saved, saved,
                    [saved EXCEPT !.autoSave.nextContribution =
                                      CalculateNextContribution(saved, t)], t)

ProcessAutoSave ==
    /\ goals' = [g \in DOMAIN goals |->
                    IF g \in FindAutoSaveDue(goals, now)
                    THEN AutoSaveGoal(goals[g], now)
                    ELSE goals[g]]
    /\ UNCHANGED <<now, expenses, budgets, totalExpenses, reqs, incomes, currentIncome>>

TickGoal ==
    /\ now < GoalHorizon
    /\ now' = now + 1
    /\ UNCHANGED <<expenses, budgets, totalExpenses, goals, reqs, incomes, currentIncome>>

NextGoal ==
    \/ \E u \in Users, t \in GoalTargets, c \in InitialAmounts, a \in AutoSaves :
          CreateGoal(u, t, c, a)
    \/ \E u \in Users, g \in GoalIds, a \in ContributionAmounts : ContributeToGoal(u, g, a)
    \/ \E u \in Users, g \in GoalIds, t \in GoalTargets : UpdateGoal(u, g, "targetAmount", t)
    \/ \E u \in Users, g \in GoalIds, a \in AutoSaves : UpdateGoal(u, g, "autoSave", a)
    \/ \E u \in Users, g \in GoalIds : DeleteGoal(u, g)
    \/ ProcessAutoSave
    \/ TickGoal

SpecGoal == Init /\ [][NextGoal]_vars

----------------------------------------------------------------------------
(* Contributions with the storage awaits as separate steps *)

\* contributeToGoal from its findOne up to the update that save() sends; the
\* pre-save hook has run on the request's copy of the document.
BeginContribute(r, user, g, amount) ==
    /\ reqs[r] = Idle
    /\ MayContribute(goals, user, g, amount)
    /\ Len(goals[g].contributions) < MaxContributions
    /\ reqs' = [reqs EXCEPT ![r] =
                  [op |-> "contribute", goal |-> g, loaded |-> goals[g],
                   modified |-> PreSaveGoal(AddContribution(goals[g], amount, "manual"),
                                            now)]]
    /\ UNCHANGED <<now, expenses, budgets, totalExpenses, goals, incomes, currentIncome>>

\* The update reaches the store.
WriteContribute(r) ==
    /\ reqs[r].op = "contribute"
    /\ goals' = [goals EXCEPT ![reqs[r].goal] =
                    IF ValidGoal(reqs[r].modified)
                    THEN WriteGoal(@, reqs[r].loaded, reqs[r].modified)
                    ELSE @]
    /\ reqs' = [reqs EXCEPT ![r] = Idle]
    /\ UNCHANGED <<now, expenses, budgets, totalExpenses, incomes, currentIncome>>

\* A goal exists, created by createGoal on day 0 with nothing saved yet.
InitGoalRace ==
    /\ now = 0
    /\ expenses = << >>
    /\ budgets = << >>
    /\ totalExpenses = 0
    /\ \E t \in GoalTargets :
          goals = ("g1" :> PreSaveGoal(NewGoal("u1", t, 0, NoAutoSave), 0))
    /\ reqs = [r \in ReqIds |-> Idle]
    /\ incomes = << >>
    /\ currentIncome = NoIncome

NextGoalRace ==
    \/ \E r \in ReqIds, u \in Users, g \in GoalIds, a \in ContributionAmounts :
          BeginContribute(r, u, g, a)
    \/ \E r \in ReqIds : WriteContribute(r)
    \/ TickGoal

SpecGoalRace == InitGoalRace /\ [][NextGoalRace]_vars

\* C2 (as claimed): clamp invariant.  Every goal has
\* 0 <= currentAmount <= targetAmount, and the amounts in its contribution log
\* add up to currentAmount.
C2_ClampInvariant ==
    \A g \in DOMAIN goals :
        /\ 0 <= goals[g].currentAmount
        /\ goals[g].currentAmount <= goals[g].targetAmount
        /\ SumLog(goals[g].contributions) = goals[g].currentAmount

\* C3 (as claimed): monotonic completion.  A completed goal stays completed and
\* its completedAt never changes again.
C3_CompletionWrittenOnce ==
    [][\A g \in DOMAIN goals :
          goals[g].isCompleted =>
             /\ goals'[g].isCompleted
             /\ goals'[g].completedAt = goals[g].completedAt]_vars

\* C10 (as claimed): lost-update freedom for goals.  After interleaved contribute
\* requests have completed, currentAmount equals the sum of the logged
\* contribution amounts and does not exceed targetAmount.
C10_NoLostContribution ==
    Quiescent =>
        \A g \in DOMAIN goals :
            /\ goals[g].currentAmount = SumLog(goals[g].contributions)
            /\ goals[g].currentAmount <= goals[g].targetAmount

----------------------------------------------------------------------------
(* recalculateBudget in steps, beside one createExpense request *)

\* recalculateBudget: its Budget.findOne.
BeginRecalculate(r, user, b) ==
    /\ reqs[r] = Idle
    /\ b \in DOMAIN budgets
    /\ budgets[b].user = user
    /\ reqs' = [reqs EXCEPT ![r] =
                  [op |-> "recalculate", pc |-> "aggregate", budget |-> b,
                   doc |-> budgets[b]]]
    /\ UNCHANGED <<now, expenses, budgets, totalExpenses, goals, incomes, currentIncome>>

\* recalculateBudgetSpending: Expense.aggregate and the assignments that follow it.
AggregateLedger(r) ==
    /\ reqs[r].op = "recalculate"
    /\ reqs[r].pc = "aggregate"
    /\ reqs' = [reqs EXCEPT ![r] =
                  [op |-> "recalculate", pc |-> "save", budget |-> reqs[r].budget,
                   doc |-> reqs[r].doc,
                   modified |-> RecalculateBudgetSpending(expenses, reqs[r].doc)]]
    /\ UNCHANGED <<now, expenses, budgets, totalExpenses, goals, incomes, currentIncome>>

\* recalculateBudgetSpending: budget.save().
SaveRecalculated(r) ==
    /\ reqs[r].op = "recalculate"
    /\ reqs[r].pc = "save"
    /\ budgets' = IF reqs[r].budget \in DOMAIN budgets
                  THEN [budgets EXCEPT ![reqs[r].budget] =
                          SaveBudget(@, reqs[r].doc, reqs[r].modified)]
                  ELSE budgets
    /\ reqs' = [reqs EXCEPT ![r] = Idle]
    /\ UNCHANGED <<now, expenses, totalExpenses, goals, incomes, currentIncome>>

\* Slot r1 carries the createExpense requests, slot r2 the recalculations.
NextRecalc ==
    \/ \E u \in Users, a \in ExpenseAmounts, c \in Categories :
          BeginCreateExpense("r1", u, a, c, NoDate)
    \/ FindBudget("r1")
    \/ SaveFoundBudget("r1")
    \/ \E u \in Users, b \in BudgetIds : BeginRecalculate("r2", u, b)
    \/ AggregateLedger("r2")
    \/ SaveRecalculated("r2")

SpecRecalc == InitRace /\ [][NextRecalc]_vars

\* C11 (as claimed): a recalculation that interleaves with an expense mutation on
\* the same budget is safe.  Once the createExpense request and the recalculation
\* have both completed, the budget's spent is the ledger sum of its completed
\* matching expenses.
C11_RecomputeSafeWithMutation ==
    (reqs["r1"] = Idle /\ reqs["r2"] = Idle)
        => \A b \in DOMAIN budgets : budgets[b].spent = LedgerSpent(expenses, budgets[b])

----------------------------------------------------------------------------
(* Goal requests with their responses; one request at a time in slot r1 *)

RequestAmounts == {0, 1, 2}
NoGoal == "none"

\* The aggregates a request may touch, as they are when it starts.
Aggregates == [goals |-> goals, budgets |-> budgets, totalExpenses |-> totalExpenses]

Free(r) == reqs[r].op \in {"idle", "done"}

\* The response of a finished request, kept in its slot.
Done(handler, status, g, amount, before) ==
    [op |-> "done", handler |-> handler, status |-> status, goal |-> g,
     amount |-> amount, before |-> before]

\* The status contributeToGoal answers with.
ContributeStatus(G, user, g, amount) ==
    IF amount <= 0 THEN 400
    ELSE IF g \notin DOMAIN G THEN 404
    ELSE IF G[g].user # user \/ ~G[g].isActive THEN 404
    ELSE IF G[g].isCompleted THEN 400
    ELSE IF amount > G[g].targetAmount - G[g].currentAmount THEN 400
    ELSE 200

ContributeRequest(r, user, g, amount) ==
    /\ Free(r)
    /\ LET status == ContributeStatus(goals, user, g, amount)
       IN  /\ goals' = IF status = 200
                       THEN [goals EXCEPT ![g] =
                               SaveGoal(@, @, AddContribution(@, amount, "manual"), now)]
                       ELSE goals
           /\ reqs' = [reqs EXCEPT ![r] =
                         Done("contributeToGoal", status, g, amount, Aggregates)]
    /\ UNCHANGED <<now, expenses, budgets, totalExpenses, incomes, currentIncome>>

\* createGoal up to and including Goal.create.
BeginCreateGoal(r, user, targetAmount, currentAmount, autoSave) ==
    /\ Free(r)
    /\ GoalIds \ DOMAIN goals # {}
    /\ IF targetAmount <= 0 \/ currentAmount < 0
       THEN /\ goals' = goals
            /\ reqs' = [reqs EXCEPT ![r] =
                          Done("createGoal", 400, NoGoal, currentAmount, Aggregates)]
       ELSE LET g == FreshGoalId(goals)
            IN  /\ goals' = goals @@
                      (g :> PreSaveGoal(NewGoal(user, targetAmount, currentAmount, autoSave),
                                        now))
                /\ reqs' = [reqs EXCEPT ![r] =
                              IF currentAmount > 0
                              THEN [op |-> "createGoal", goal |-> g,
                                    amount |-> currentAmount, before |-> Aggregates]
                              ELSE Done("createGoal", 201, g, currentAmount, Aggregates)]
    /\ UNCHANGED <<now, expenses, budgets, totalExpenses, incomes, currentIncome>>

\* createGoal: goal.addContribution(currentAmount) on the document just created.
FinishCreateGoal(r) ==
    /\ reqs[r].op = "createGoal"
    /\ LET q == reqs[r]
           contributed == AddContribution(goals[q.goal], q.amount, "manual")
       IN  /\ goals' = [goals EXCEPT ![q.goal] = SaveGoal(@, @, contributed, now)]
           /\ reqs' = [reqs EXCEPT ![r] =
                         Done("createGoal", IF ValidGoal(contributed) THEN 201 ELSE 400,
                              q.goal, q.amount, q.before)]
    /\ UNCHANGED <<now, expenses, budgets, totalExpenses, incomes, currentIncome>>

UpdateGoalRequest(r, user, g, targetAmount) ==
    /\ Free(r)
    /\ LET status == IF g \notin DOMAIN goals THEN 404
                     ELSE IF goals[g].user # user THEN 404
                     ELSE IF goals[g].isCompleted THEN 400
                     ELSE IF ~ValidGoal([goals[g] EXCEPT !.targetAmount = targetAmount])
                     THEN 400
                     ELSE 200
       IN  /\ goals' = IF status = 200
                       THEN [goals EXCEPT ![g] =
                               SaveGoal(@, @, [@ EXCEPT !.targetAmount = targetAmount], now)]
                       ELSE goals
           /\ reqs' = [reqs EXCEPT ![r] = Done("updateGoal", status, g, 0, Aggregates)]
    /\ UNCHANGED <<now, expenses, budgets, totalExpenses, incomes, currentIncome>>

NextGoalReq ==
    \/ \E u \in Users, g \in GoalIds, a \in RequestAmounts : ContributeRequest("r1", u, g, a)
    \/ \E u \in Users, t \in {0} \cup GoalTargets, c \in InitialAmounts :
          BeginCreateGoal("r1", u, t, c, NoAutoSave)
    \/ FinishCreateGoal("r1")
    \/ \E u \in Users, g \in GoalIds, t \in {0} \cup GoalTargets :
          UpdateGoalRequest("r1", u, g, t)
    \/ \E u \in Users, g \in GoalIds : DeleteGoal(u, g)
    \/ TickGoal

SpecGoalReq == Init /\ [][NextGoalReq]_vars

\* The goal accepts contributions: it is the user's, active and not completed.
Open(G, user, g) ==
    /\ g \in DOMAIN G
    /\ G[g].user = user
    /\ G[g].isActive
    /\ ~G[g].isCompleted

\* C12 (as claimed): a contribution larger than the remaining amount is clamped,
\* not rejected.  It appends a log entry of the remaining amount, sets
\* currentAmount to targetAmount and completes the goal.
C12_OverContributionClamped ==
    [][\A u \in Users, g \in GoalIds, a \in RequestAmounts :
          (/\ ContributeRequest("r1", u, g, a)
           /\ Open(goals, u, g)
           /\ a > goals[g].targetAmount - goals[g].currentAmount)
          => /\ goals'[g].currentAmount = goals[g].targetAmount
             /\ goals'[g].isCompleted
             /\ goals'[g].contributions =
                   Append(goals[g].contributions,
                          [amount |-> goals[g].targetAmount - goals[g].currentAmount,
                           source |-> "manual"])]_vars

\* C13 (as claimed): a contribution of amount <= 0 or to a completed goal fails and
\* leaves the goal as it was, both through contributeToGoal and where
\* addContribution is called directly (createGoal's initial contribution).
C13_RejectedContributionChangesNothing ==
    [][/\ \A u \in Users, g \in DOMAIN goals, a \in RequestAmounts :
             (/\ ContributeRequest("r1", u, g, a)
              /\ (a <= 0 \/ goals[g].isCompleted))
             => /\ reqs'["r1"].status >= 400
                /\ goals'[g] = goals[g]
       /\ (/\ FinishCreateGoal("r1")
           /\ (reqs["r1"].amount <= 0 \/ goals[reqs["r1"].goal].isCompleted))
          => /\ reqs'["r1"].status >= 400
             /\ goals'[reqs["r1"].goal] = goals[reqs["r1"].goal]]_vars

\* C14 (as claimed): a request that fails leaves every aggregate as it was when
\* the request started.
C14_FailedRequestChangesNothing ==
    [][\A r \in ReqIds :
          (/\ reqs'[r] # reqs[r]
           /\ reqs'[r].op = "done"
           /\ reqs'[r].status >= 400)
          => /\ goals' = reqs'[r].before.goals
             /\ budgets' = reqs'[r].before.budgets
             /\ totalExpenses' = reqs'[r].before.totalExpenses]_vars

----------------------------------------------------------------------------
(* processAutoSave as a batch over two goals, with its result list *)

BatchGoalIds == <<"g1", "g2">>
BatchTargets == {2}
BatchAutoSaves ==
    {NoAutoSave,
     [enabled |-> TRUE, amount |-> 1, frequency |-> "weekly", nextContribution |-> NoDate],
     [enabled |-> TRUE, amount |-> 0, frequency |-> "weekly", nextContribution |-> NoDate]}

\* Goal.findAutoSaveDue() as the array the loop walks, in _id order.
DueGoals(G, t) ==
    LET IsDue(g) == g \in FindAutoSaveDue(G, t)
    IN  SelectSeq(BatchGoalIds, IsDue)

\* The loop body throws: addContribution rejects the amount, or save() the document.
AutoSaveFails(goal) ==
    \/ goal.autoSave.amount <= 0
    \/ ~ValidGoal(AddContribution(goal, goal.autoSave.amount, "auto-save"))

AfterFailureAbort(due) == << >>

\* The catch block records the failure and the loop goes on with the next goal.
AfterFailure(due) == Tail(due)

RECURSIVE AutoSaveBatch(_, _, _, _)
AutoSaveBatch(G, due, t, results) ==
    IF due = << >>
    THEN [goals |-> G, results |-> results]
    ELSE LET g == Head(due)
         IN  IF AutoSaveFails(G[g])
             THEN AutoSaveBatch(G, AfterFailure(due), t,
                                Append(results, [goal |-> g, status |-> "failed"]))
             ELSE AutoSaveBatch([G EXCEPT ![g] = AutoSaveGoal(G[g], t)], Tail(due), t,
                                Append(results, [goal |-> g, status |-> "success"]))

ProcessAutoSaveRequest(r) ==
    /\ Free(r)
    /\ LET batch == AutoSaveBatch(goals, DueGoals(goals, now), now, << >>)
       IN  /\ goals' = batch.goals
           /\ reqs' = [reqs EXCEPT ![r] =
                         [op |-> "done", handler |-> "processAutoSave", status |-> 200,
                          results |-> batch.results]]
    /\ UNCHANGED <<now, expenses, budgets, totalExpenses, incomes, currentIncome>>

\* Two goals exist, created by createGoal on day 0 with nothing saved yet.
InitAutoSave ==
    /\ now = 0
    /\ expenses = << >>
    /\ budgets = << >>
    /\ totalExpenses = 0
    /\ \E t1 \in BatchTargets, t2 \in BatchTargets, a1 \in BatchAutoSaves,
          a2 \in BatchAutoSaves :
          goals = ("g1" :> PreSaveGoal(NewGoal("u1", t1, 0, a1), 0))
                  @@ ("g2" :> PreSaveGoal(NewGoal("u1", t2, 0, a2), 0))
    /\ reqs = [r \in ReqIds |-> Idle]
    /\ incomes = << >>
    /\ currentIncome = NoIncome

NextAutoSave ==
    \/ ProcessAutoSaveRequest("r1")
    \/ \E u \in Users, i \in DOMAIN BatchGoalIds, a \in ContributionAmounts :
          ContributeToGoal(u, BatchGoalIds[i], a)
    \/ \E u \in Users, i \in DOMAIN BatchGoalIds : DeleteGoal(u, BatchGoalIds[i])
    \/ TickGoal

SpecAutoSave == InitAutoSave /\ [][NextAutoSave]_vars

\* C15: batch isolation.  processAutoSave answers 200 with exactly one result
\* entry per due goal, in order, each success or failed; a goal whose processing
\* throws is reported failed and left as it was, and every other due goal, also
\* a later one, is contributed to and rescheduled.
C15_BatchIsolation ==
    [][ProcessAutoSaveRequest("r1") =>
          LET due == DueGoals(goals, now)
              res == reqs'["r1"].results
          IN  /\ reqs'["r1"].status = 200
              /\ Len(res) = Len(due)
              /\ \A i \in 1 .. Len(due) :
                    /\ res[i].goal = due[i]
                    /\ res[i].status \in {"success", "failed"}
                    /\ res[i].status = "failed" <=> goals[due[i]].autoSave.amount <= 0
                    /\ res[i].status = "failed" => goals'[due[i]] = goals[due[i]]
                    /\ res[i].status = "success" =>
                          /\ Len(goals'[due[i]].contributions)
                                = Len(goals[due[i]].contributions) + 1
                          /\ goals'[due[i]].currentAmount > goals[due[i]].currentAmount
                          /\ goals'[due[i]].autoSave.nextContribution > now]_vars

\* C15 witness: a batch whose first due goal failed and whose second, later one
\* was still processed.
C15_Witness ==
    /\ reqs["r1"].op = "done"
    /\ reqs["r1"].handler = "processAutoSave"
    /\ Len(reqs["r1"].results) = 2
    /\ reqs["r1"].results[1].status = "failed"
    /\ reqs["r1"].results[2].status = "success"
    /\ Len(goals["g2"].contributions) > 0

----------------------------------------------------------------------------
(* Further properties of the expense / budget controllers *)

\* C16 (as claimed): the 'total' budget matches all categories.  After any
\* sequence of expense creates, updates and deletes, the spent of a 'total' budget
\* is the sum of the completed expenses of all categories inside its window.
C16_TotalBudgetIsLedgerSum ==
    \A b \in DOMAIN budgets :
        budgets[b].category = "total" => Converged(budgets, expenses, b)

\* The thresholds a createBudget body may carry in alerts.thresholds: none (the
\* pre-save hook then installs the defaults), percentages only, or entries with
\* the triggered flag already set.
AlertInputs ==
    {<< >>,
     <<[percentage |-> 50, triggered |-> FALSE, triggeredAt |-> NoDate],
       [percentage |-> 100, triggered |-> FALSE, triggeredAt |-> NoDate]>>,
     <<[percentage |-> 50, triggered |-> TRUE, triggeredAt |-> NoDate],
       [percentage |-> 100, triggered |-> FALSE, triggeredAt |-> NoDate]>>}

\* createBudget with a body that sets alerts and leaves the dates out.
CreateBudgetWithAlerts(ids, user, category, amount, period, thresholds) ==
    /\ amount > 0
    /\ ids \ DOMAIN budgets # {}
    /\ LET w == CheckedWindow(NoDate, NoDate, now)
       IN  OverlappingBudgets(budgets, user, category, w.s, w.e) = {}
    /\ LET doc == PreSaveBudget(
                     [NewBudget(user, category, amount, NoDate, NoDate, period, now)
                         EXCEPT !.thresholds = thresholds])
       IN  budgets' = budgets @@
                (FreshBudgetId(budgets, ids) :> RecalculateBudgetSpending(expenses, doc))
    /\ UNCHANGED <<now, expenses, totalExpenses, goals, reqs, incomes, currentIncome>>

NextAlerts ==
    \/ \E u \in Users, c \in BudgetCategories, a \in BudgetAmounts, p \in LedgerPeriods,
          th \in AlertInputs :
          CreateBudgetWithAlerts(LedgerBudgetIds, u, c, a, p, th)
    \/ \E u \in Users, a \in ExpenseAmounts, c \in Categories :
          CreateExpense(u, a, c, NoDate)
    \/ \E u \in Users, id \in ExpenseIds : DeleteExpense(u, id)
    \/ \E u \in Users, b \in BudgetIds : RecalculateBudget(u, b)
    \/ \E u \in Users, b \in BudgetIds : DeleteBudget(u, b)
    \/ Tick

SpecAlerts == Init /\ [][NextAlerts]_vars

\* C17 (as claimed): after updateSpent has changed a budget's spent, every
\* threshold whose percentage is <= percentageUsed is triggered and carries a
\* triggeredAt, and a threshold that was untriggered and lies above percentageUsed
\* is still untriggered.
C17_ThresholdsFollowPercentage ==
    [][\A b \in DOMAIN budgets \cap DOMAIN budgets' :
          (expenses' # expenses /\ budgets'[b].spent # budgets[b].spent) =>
             \A i \in 1 .. Len(budgets'[b].thresholds) :
                LET old == budgets[b].thresholds[i]
                    new == budgets'[b].thresholds[i]
                IN  IF PercentageUsedAtLeast(budgets'[b], new.percentage)
                    THEN new.triggered /\ new.triggeredAt # NoDate
                    ELSE ~old.triggered => ~new.triggered]_vars

\* C18 (as claimed): thresholds are evaluated whenever percentageUsed changes
\* without an expense delta: after a step of createBudget, recalculateBudget or
\* updateBudget, every threshold of the budget whose percentage is <= the new
\* percentageUsed is triggered.
C18_EveryChangeEvaluatesThresholds ==
    [][\A b \in DOMAIN budgets' :
          (/\ expenses' = expenses
           /\ (b \notin DOMAIN budgets \/ budgets'[b] # budgets[b]))
          => \A i \in 1 .. Len(budgets'[b].thresholds) :
                PercentageUsedAtLeast(budgets'[b], budgets'[b].thresholds[i].percentage)
                   => budgets'[b].thresholds[i].triggered]_vars

----------------------------------------------------------------------------
(* Income sources, the income roll-up and the cached stats.currentIncome *)

IncomeIds == {"i1", "i2"}

Frequencies == {"one-time", "weekly", "bi-weekly", "monthly", "quarterly", "yearly"}

IncomeAmounts == {1, 2}

\* The amounts updateIncome sets: 0 passes the min 0 validator of the schema.
UpdatedIncomeAmounts == {0, 3}

\* The annualIncome values of updateProfile.
ProfileIncomes == {0, 12}

\* The multipliers of the annualAmount virtual.
Multipliers ==
    [f \in Frequencies |->
        CASE f = "one-time" -> 0
          [] f = "weekly" -> 52
          [] f = "bi-weekly" -> 26
          [] f = "monthly" -> 12
          [] f = "quarterly" -> 4
          [] f = "yearly" -> 1]

\* The annualAmount virtual of an income document.
VirtualAnnualAmount(doc) ==
    IF ~doc.isActive THEN 0 ELSE doc.amount * Multipliers[doc.frequency]

\* The document Income.create stores for the body of createIncome.
NewIncome(user, amount, frequency, endDate) ==
    [user |-> user, amount |-> amount, frequency |-> frequency,
     endDate |-> endDate, isActive |-> TRUE]

\* The $match stage of getTotalAnnualIncome, with t the value of new Date().
MatchIncomeIgnoringEndDate(I, user, t) ==
    {i \in DOMAIN I : I[i].user = user /\ I[i].isActive}

MatchIncome(I, user, t) ==
    {i \in DOMAIN I :
        /\ I[i].user = user
        /\ I[i].isActive
        /\ (I[i].endDate = NoDate \/ I[i].endDate >= t)}

\* The $addFields stage of getTotalAnnualIncome: the $switch over frequency.
AnnualAmount(doc) ==
    CASE doc.frequency = "weekly" -> doc.amount * 52
      [] doc.frequency = "bi-weekly" -> doc.amount * 26
      [] doc.frequency = "monthly" -> doc.amount * 12
      [] doc.frequency = "quarterly" -> doc.amount * 4
      [] doc.frequency = "yearly" -> doc.amount
      [] OTHER -> 0

\* The $group stage: totalAnnual sums annualAmount, totalMonthly sums the
\* quotients annualAmount / 12 document by document, sourceCount sums 1.
RECURSIVE Group(_, _)
Group(I, M) ==
    IF M = {}
    THEN [totalAnnual |-> 0, totalMonthly |-> Divide(0, 1), sourceCount |-> 0]
    ELSE LET i == CHOOSE x \in M : TRUE
             rest == Group(I, M \ {i})
         IN  [totalAnnual |-> rest.totalAnnual + AnnualAmount(I[i]),
              totalMonthly |-> Add(rest.totalMonthly, Divide(AnnualAmount(I[i]), 12)),
              sourceCount |-> rest.sourceCount + 1]

\* Income.getTotalAnnualIncome(userId): the rows of the aggregation, none when
\* no document matches.
GetTotalAnnualIncome(I, user, t) ==
    LET M == MatchIncome(I, user, t)
    IN  IF M = {} THEN << >> ELSE << Group(I, M) >>

\* The data getIncomeSummary answers with.
GetIncomeSummary(I, user, t) ==
    LET summary == GetTotalAnnualIncome(I, user, t)
    IN  IF Len(summary) = 0
        THEN [totalAnnual |-> 0, totalMonthly |-> Divide(0, 1), sourceCount |-> 0]
        ELSE summary[1]

\* updateUserTotalIncome(userId): the stats.currentIncome it writes.
UpdateUserTotalIncome(I, user, t) ==
    LET incomeData == GetTotalAnnualIncome(I, user, t)
        totalIncome == IF Len(incomeData) > 0
                       THEN incomeData[1]
                       ELSE [totalAnnual |-> 0, totalMonthly |-> Divide(0, 1)]
    IN  [annual |-> totalIncome.totalAnnual, monthly |-> totalIncome.totalMonthly]

FreshIncomeId(I) == CHOOSE i \in IncomeIds : i \notin DOMAIN I

CreateIncome(user, amount, frequency, endDate) ==
    /\ amount # 0
    /\ amount >= 0
    /\ frequency \in Frequencies
    /\ IncomeIds \ DOMAIN incomes # {}
    /\ incomes' = incomes @@ (FreshIncomeId(incomes) :>
                                 NewIncome(user, amount, frequency, endDate))
    /\ currentIncome' = UpdateUserTotalIncome(incomes', user, now)
    /\ UNCHANGED <<now, expenses, budgets, totalExpenses, goals, reqs>>

\* The request bodies of updateIncome enumerated: those that set one of the
\* fields the roll-up reads.
IncomeUpdates ==
    ({"amount"} \X UpdatedIncomeAmounts) \cup ({"frequency"} \X Frequencies)
    \cup ({"endDate"} \X OptDates) \cup ({"isActive"} \X BOOLEAN)

UpdateIncome(user, i, field, value) ==
    /\ i \in DOMAIN incomes
    /\ incomes[i].user = user
    /\ LET income == CASE field = "amount" -> [incomes[i] EXCEPT !.amount = value]
                       [] field = "frequency" -> [incomes[i] EXCEPT !.frequency = value]
                       [] field = "endDate" -> [incomes[i] EXCEPT !.endDate = value]
                       [] field = "isActive" -> [incomes[i] EXCEPT !.isActive = value]
       IN  /\ income.amount >= 0
           /\ income.frequency \in Frequencies
           /\ incomes' = [incomes EXCEPT ![i] = income]
    /\ currentIncome' = UpdateUserTotalIncome(incomes', user, now)
    /\ UNCHANGED <<now, expenses, budgets, totalExpenses, goals, reqs>>

DeleteIncome(user, i) ==
    /\ i \in DOMAIN incomes
    /\ incomes[i].user = user
    /\ incomes' = [j \in DOMAIN incomes \ {i} |-> incomes[j]]
    /\ currentIncome' = UpdateUserTotalIncome(incomes', user, now)
    /\ UNCHANGED <<now, expenses, budgets, totalExpenses, goals, reqs>>

\* updateProfile with annualIncome in the body.
UpdateProfile(user, annualIncome) ==
    /\ annualIncome >= 0
    /\ currentIncome' = [annual |-> annualIncome, monthly |-> Divide(annualIncome, 12)]
    /\ UNCHANGED <<now, expenses, budgets, totalExpenses, goals, reqs, incomes>>

NextIncome ==
    \/ \E u \in Users, a \in IncomeAmounts, f \in Frequencies, e \in OptDates :
          CreateIncome(u, a, f, e)
    \/ \E u \in Users, i \in IncomeIds, p \in IncomeUpdates :
          UpdateIncome(u, i, p[1], p[2])
    \/ \E u \in Users, i \in IncomeIds : DeleteIncome(u, i)
    \/ \E u \in Users, a \in ProfileIncomes : UpdateProfile(u, a)
    \/ Tick

SpecIncome == Init /\ [][NextIncome]_vars

\* The cached stats.currentIncome equals the roll-up taken now.
Coherent ==
    LET summary == GetIncomeSummary(incomes, "u1", now)
    IN  /\ currentIncome.annual = summary.totalAnnual
        /\ currentIncome.monthly = summary.totalMonthly

\* C19: income cache coherence. After every createIncome, updateIncome,
\* deleteIncome and profile update, stats.currentIncome.annual equals the
\* roll-up's totalAnnual and stats.currentIncome.monthly its totalMonthly.
C19_IncomeCacheCoherent ==
    [][(incomes' # incomes \/ currentIncome' # currentIncome) => Coherent']_vars

\* The sources the roll-up is to count: active, and not ended at time t.
Counted(I, user, t) ==
    {i \in DOMAIN I :
        I[i].user = user /\ I[i].isActive
        /\ ~(I[i].endDate # NoDate /\ I[i].endDate < t)}

RECURSIVE Total(_, _)
Total(I, S) ==
    IF S = {} THEN 0
    ELSE LET i == CHOOSE x \in S : TRUE
         IN  VirtualAnnualAmount(I[i]) + Total(I, S \ {i})

----------------------------------------------------------------------------
(* Recalculation repeated *)

\* C21: idempotence of recompute.  After a recalculateBudget request, a second
\* recalculateBudgetSpending on the same budget with no ledger or budget mutation
\* in between saves the same spent and the same threshold flags as the first.
C21_RecomputeIdempotent ==
    [][\A u \in Users, b \in DOMAIN budgets :
          RecalculateBudget(u, b) =>
             RecalculateBudgetSpending(expenses', budgets'[b]) = budgets'[b]]_vars

\* C21 witness: a budget as a recalculation leaves it and updateSpent cannot:
\* spent is the positive ledger sum, a threshold at or below percentageUsed is
\* untriggered, and recalculating again changes nothing.
C21_Witness ==
    \E b \in DOMAIN budgets :
        /\ budgets[b].amount \in BudgetAmounts
        /\ budgets[b].spent > 0
        /\ budgets[b].spent = LedgerSpent(expenses, budgets[b])
        /\ \E i \in 1 .. Len(budgets[b].thresholds) :
              /\ ~budgets[b].thresholds[i].triggered
              /\ PercentageUsedAtLeast(budgets[b], budgets[b].thresholds[i].percentage)
        /\ RecalculateBudgetSpending(expenses, budgets[b]) = budgets[b]

----------------------------------------------------------------------------
(* The auto-save sweep over goals of every frequency *)

SweepTargets == {2, 3}
SweepAmounts == {1, 2}
AutoSaveFrequencies == {"weekly", "monthly", "quarterly"}

\* The autoSave objects a createGoal body may carry: disabled, enabled with the
\* first nextContribution given as day 0, or enabled and weekly with the first
\* nextContribution left to the pre-save hook (a week ahead).
SweepAutoSaves ==
    {NoAutoSave} \cup
    {[enabled |-> TRUE, amount |-> a, frequency |-> f, nextContribution |-> 0] :
        a \in SweepAmounts, f \in AutoSaveFrequencies} \cup
    {[enabled |-> TRUE, amount |-> a, frequency |-> "weekly", nextContribution |-> NoDate] :
        a \in SweepAmounts}

\* Two goals exist, created by createGoal on day 0 with nothing saved yet.
InitSweep ==
    /\ now = 0
    /\ expenses = << >>
    /\ budgets = << >>
    /\ totalExpenses = 0
    /\ \E t1 \in SweepTargets, a1 \in SweepAutoSaves,
          a2 \in BatchAutoSaves \ {NoAutoSave} :
          goals = ("g1" :> PreSaveGoal(NewGoal("u1", t1, 0, a1), 0))
                  @@ ("g2" :> PreSaveGoal(NewGoal("u1", 2, 0, a2), 0))
    /\ reqs = [r \in ReqIds |-> Idle]
    /\ incomes = << >>
    /\ currentIncome = NoIncome

NextSweep ==
    \/ ProcessAutoSaveRequest("r1")
    \/ \E u \in Users, i \in DOMAIN BatchGoalIds, a \in ContributionAmounts :
          ContributeToGoal(u, BatchGoalIds[i], a)
    \/ TickGoal

SpecSweep == InitSweep /\ [][NextSweep]_vars

\* The period the sweep adds to now for a frequency.
SweepPeriod(frequency) ==
    CASE frequency = "weekly" -> WeekDays
      [] frequency = "monthly" -> MonthDays
      [] frequency = "quarterly" -> QuarterDays

\* C22: auto-save sweep step.  For every goal that is due (autoSave.enabled,
\* nextContribution <= now, not completed) and that the sweep processes
\* successfully, the sweep appends exactly one contribution of source
\* 'auto-save' for autoSave.amount (capped at the remaining amount) and sets
\* nextContribution to now + 7 days / 1 month / 3 months, strictly later than now,
\* so a sweep run immediately afterwards does not select the goal; a goal that is
\* not due is left as it was.
C22_SweepStep ==
    [][ProcessAutoSaveRequest("r1") =>
          LET due == DueGoals(goals, now)
              res == reqs'["r1"].results
          IN  /\ \A g \in DOMAIN goals :
                    g \notin FindAutoSaveDue(goals, now) => goals'[g] = goals[g]
              /\ \A i \in 1 .. Len(due) :
                    res[i].status = "success" =>
                       LET old == goals[due[i]]
                           new == goals'[due[i]]
                           added == Min(old.autoSave.amount,
                                        old.targetAmount - old.currentAmount)
                       IN  /\ new.contributions =
                                 Append(old.contributions,
                                        [amount |-> added, source |-> "auto-save"])
                           /\ new.currentAmount = old.currentAmount + added
                           /\ new.autoSave.nextContribution
                                 = now + SweepPeriod(old.autoSave.frequency)
                           /\ new.autoSave.nextContribution > now
                           /\ due[i] \notin FindAutoSaveDue(goals', now)]_vars

\* C22 witness: a sweep has contributed to a quarterly goal without completing
\* it and rescheduled it three months ahead.
C22_Witness ==
    /\ reqs["r1"].op = "done"
    /\ reqs["r1"].handler = "processAutoSave"
    /\ \E i \in 1 .. Len(reqs["r1"].results) :
          LET goal == goals[reqs["r1"].results[i].goal]
          IN  /\ reqs["r1"].results[i].status = "success"
              /\ goal.autoSave.frequency = "quarterly"
              /\ goal.autoSave.nextContribution = now + QuarterDays
              /\ ~goal.isCompleted
              /\ Len(goal.contributions) > 0
              /\ goal.contributions[Len(goal.contributions)].source = "auto-save"

----------------------------------------------------------------------------
(* Budget renewal.  The model has the query for budgets needing renewal; no
   handler, job or other code of the server calls it or creates a successor. *)

\* Budget.findExpiredAutoRenew(), with t the value of new Date().
FindExpiredAutoRenew(B, t) ==
    {b \in DOMAIN B : B[b].isActive /\ B[b].autoRenew /\ B[b].endDate < t}

\* updateBudget with a body that sets autoRenew.
UpdateBudgetAutoRenew(user, b, autoRenew) ==
    /\ b \in DOMAIN budgets
    /\ budgets[b].user = user
    /\ budgets' = [budgets EXCEPT ![b] = PreSaveBudget([@ EXCEPT !.autoRenew = autoRenew])]
    /\ UNCHANGED <<now, expenses, totalExpenses, goals, reqs, incomes, currentIncome>>

NextRenew ==
    \/ \E u \in Users, c \in BudgetCategories, a \in BudgetAmounts,
          s \in OptDates, e \in LedgerEndDates, p \in Periods :
          CreateBudget(BudgetIds, u, c, a, s, e, p)
    \/ \E u \in Users, b \in BudgetIds, f \in BOOLEAN : UpdateBudgetAutoRenew(u, b, f)
    \/ \E u \in Users, b \in BudgetIds, a \in UpdatedAmounts : UpdateBudget(u, b, a)
    \/ \E u \in Users, b \in BudgetIds, s \in Dates, e \in Dates :
          DuplicateBudget(BudgetIds, u, b, s, e)
    \/ \E u \in Users, b \in BudgetIds : DeleteBudget(u, b)
    \/ Tick

\* Every request that can be served eventually is, and the clock advances.
SpecRenew == Init /\ [][NextRenew]_vars /\ WF_vars(NextRenew) /\ WF_vars(Tick)

\* Budget s is a successor of budget b: same owner, category and amount, a
\* window of the same duration that starts after b's endDate.
Successor(B, b, s) ==
    /\ s # b
    /\ B[s].isActive
    /\ B[s].user = B[b].user
    /\ B[s].category = B[b].category
    /\ B[s].amount = B[b].amount
    /\ B[s].startDate >= B[b].endDate
    /\ B[s].endDate - B[s].startDate = B[b].endDate - B[b].startDate

\* C23 (as claimed): budget auto-renewal.  An active autoRenew budget whose
\* endDate has passed gets a successor of the same amount and category in the
\* next window of the same duration (unless it stops being due for renewal).
C23_ExpiredBudgetRenewed ==
    \A b \in BudgetIds :
        (b \in FindExpiredAutoRenew(budgets, now))
           ~> (\/ b \notin FindExpiredAutoRenew(budgets, now)
               \/ \E s \in DOMAIN budgets : Successor(budgets, b, s))

----------------------------------------------------------------------------
(* Two users.  Every route runs behind `protect`, which sets req.user to the
   authenticated caller; the handlers below take the caller as `user`. *)

Tenants == {"u1", "u2"}

\* POST /api/goals/process-auto-save sent by user: the route requires a login
\* and nothing more, and the handler does not read req.user.
ProcessAutoSaveAs(user, r) ==
    /\ user \in Tenants
    /\ ProcessAutoSaveRequest(r)

NextIsolation ==
    \/ \E u \in Tenants, t \in GoalTargets, a \in SweepAutoSaves : CreateGoal(u, t, 0, a)
    \/ \E u \in Tenants, g \in GoalIds, a \in ContributionAmounts : ContributeToGoal(u, g, a)
    \/ \E u \in Tenants, g \in GoalIds, t \in GoalTargets :
          UpdateGoal(u, g, "targetAmount", t)
    \/ \E u \in Tenants, g \in GoalIds : DeleteGoal(u, g)
    \/ \E u \in Tenants : ProcessAutoSaveAs(u, "r1")
    \/ TickGoal

SpecIsolation == Init /\ [][NextIsolation]_vars

\* The step is a goal request sent by user.
GoalRequestBy(user) ==
    \/ \E t \in GoalTargets, a \in SweepAutoSaves : CreateGoal(user, t, 0, a)
    \/ \E g \in GoalIds, a \in ContributionAmounts : ContributeToGoal(user, g, a)
    \/ \E g \in GoalIds, t \in GoalTargets : UpdateGoal(user, g, "targetAmount", t)
    \/ \E g \in GoalIds : DeleteGoal(user, g)
    \/ ProcessAutoSaveAs(user, "r1")

\* C24 (as claimed): per-user isolation.  A goal request sent by user A never
\* changes a goal owned by a different user B.
C24_PerUserIsolation ==
    [][\A u \in Tenants, g \in DOMAIN goals :
          (goals[g].user # u /\ GoalRequestBy(u))
             => (g \in DOMAIN goals' /\ goals'[g] = goals[g])]_vars

----------------------------------------------------------------------------
(* The floor of spent *)

\* spent after one updateSpent call with difference d.
Clamped(spent, d) == Max(0, spent + d)

\* C25: applyDelta clamps at zero.  Every budget's spent is >= 0 after every
\* step, and each updateSpent call leaves spent = max(0, spent + d): after
\* createExpense (d = amount) or deleteExpense (d = -amount) a budget's spent is
\* either untouched or clamped that way, after updateExpense it is the result of
\* the clamped reversal of the old amount and / or the clamped application of the
\* new one.
C25_SpentClampedAtZero ==
    [][/\ \A b \in DOMAIN budgets' : budgets'[b].spent >= 0
       /\ \A b \in DOMAIN budgets \cap DOMAIN budgets' :
             /\ \A e \in DOMAIN expenses' \ DOMAIN expenses :
                   budgets'[b].spent \in
                      {budgets[b].spent, Clamped(budgets[b].spent, expenses'[e].amount)}
             /\ \A e \in DOMAIN expenses \ DOMAIN expenses' :
                   budgets'[b].spent \in
                      {budgets[b].spent, Clamped(budgets[b].spent, 0 - expenses[e].amount)}
             /\ \A e \in DOMAIN expenses \cap DOMAIN expenses' :
                   expenses'[e] # expenses[e] =>
                      LET reversed == Clamped(budgets[b].spent, 0 - expenses[e].amount)
                      IN  budgets'[b].spent \in
                             {budgets[b].spent, reversed,
                              Clamped(budgets[b].spent, expenses'[e].amount),
                              Clamped(reversed, expenses'[e].amount)}]_vars

\* C25 witness: updateSpent has acted on a budget (a threshold is triggered) that
\* is current for an expense larger than its spent, so reversing that expense
\* runs into the floor.
C25_Witness ==
    \E b \in DOMAIN budgets, e \in DOMAIN expenses :
        /\ b \in CurrentBudgets(budgets, expenses[e].user, expenses[e].category, now)
        /\ expenses[e].amount > budgets[b].spent
        /\ \E i \in 1 .. Len(budgets[b].thresholds) : budgets[b].thresholds[i].triggered

----------------------------------------------------------------------------
(* Insights: the goal insights of getGoalInsights and the financial insights of
   generateFinancialInsights *)

InsightTarget == 10
InsightInitialAmounts == {0, 1, 4}
InsightDeadlines == {31, 91, 200}
InsightAutoSaves ==
    {NoAutoSave,
     [enabled |-> TRUE, amount |-> 1, frequency |-> "quarterly", nextContribution |-> NoDate]}
AvgMonthlyExpenses == {0, 1, 2, 4}

\* priorityOrder of getGoalInsights; a priority it does not name has no number.
PriorityOrder == [p \in {"high", "medium", "low"} |->
                    CASE p = "high" -> 3 [] p = "medium" -> 2 [] p = "low" -> 1]

\* The comparator priorityOrder[b.priority] - priorityOrder[a.priority]; with a
\* priority outside priorityOrder the difference is NaN, which sort takes as 0.
ComparePriority(a, b) ==
    IF a.priority \in DOMAIN PriorityOrder /\ b.priority \in DOMAIN PriorityOrder
    THEN PriorityOrder[b.priority] - PriorityOrder[a.priority]
    ELSE 0

\* Array.prototype.sort left out: the list stays in evaluation order.
SortInsightsSkipped(list) == list

\* insights.sort(comparator): a stable sort, as insertion from the left.
RECURSIVE SortInsights(_)
SortInsights(list) ==
    IF list = << >> THEN << >>
    ELSE LET x == list[Len(list)]
             sorted == SortInsights(SubSeq(list, 1, Len(list) - 1))
             \* x goes behind every element it does not have to precede
             k == Cardinality({i \in 1 .. Len(sorted) :
                                  \A j \in 1 .. i : ComparePriority(sorted[j], x) <= 0})
         IN  SubSeq(sorted, 1, k) \o <<x>> \o SubSeq(sorted, k + 1, Len(sorted))

\* The daysRemaining virtual.
DaysRemaining(goal, t) == Max(0, goal.deadline - t)

\* progressPercentage < p and >= p, with
\* progressPercentage = Math.min(currentAmount / targetAmount * 100, 100).
ProgressBelow(goal, p) ==
    Min(goal.currentAmount * 100, 100 * goal.targetAmount) < p * goal.targetAmount

\* The four rules of getGoalInsights on one goal, in the order they are evaluated.
GoalRules(g, goal, t) ==
    (IF DaysRemaining(goal, t) <= 30 /\ ProgressBelow(goal, 80)
     THEN <<[goal |-> g, type |-> "deadline", priority |-> "high"]>> ELSE << >>)
    \o (IF ProgressBelow(goal, 25) /\ DaysRemaining(goal, t) <= 90
        THEN <<[goal |-> g, type |-> "progress", priority |-> "medium"]>> ELSE << >>)
    \o (IF ~ProgressBelow(goal, 90)
        THEN <<[goal |-> g, type |-> "success", priority |-> "low"]>> ELSE << >>)
    \o (IF ~goal.autoSave.enabled /\ ProgressBelow(goal, 50)
        THEN <<[goal |-> g, type |-> "suggestion", priority |-> "low"]>> ELSE << >>)

\* The list the forEach of getGoalInsights builds over the goals found (active,
\* not completed, of the user), before the sort.
RECURSIVE EvaluateGoals(_, _, _, _)
EvaluateGoals(G, ids, user, t) ==
    IF ids = << >> THEN << >>
    ELSE LET g == Head(ids)
         IN  (IF g \in DOMAIN G /\ G[g].user = user /\ G[g].isActive /\ ~G[g].isCompleted
              THEN GoalRules(g, G[g], t) ELSE << >>)
             \o EvaluateGoals(G, Tail(ids), user, t)

\* getGoalInsights
GetGoalInsights(r, user) ==
    /\ Free(r)
    /\ reqs' = [reqs EXCEPT ![r] =
                  [op |-> "done", handler |-> "getGoalInsights", status |-> 200,
                   insights |-> SortInsights(EvaluateGoals(goals, BatchGoalIds, user, now))]]
    /\ UNCHANGED <<now, expenses, budgets, totalExpenses, goals, incomes, currentIncome>>

\* savingsRate as getIncomeVsExpenseAnalysis derives it from the monthly income
\* and the average monthly expenses.
SavingsRate(monthlyIncome, avgMonthlyExpenses) ==
    IF monthlyIncome.num > 0
    THEN Divide((monthlyIncome.num - avgMonthlyExpenses * monthlyIncome.den) * 100,
                monthlyIncome.num)
    ELSE Divide(0, 1)

\* x < k for a quotient x and an integer k.
Below(x, k) == x.num < k * x.den

\* generateFinancialInsights(monthlyIncome, avgMonthlyExpenses, savingsRate)
GenerateFinancialInsights(monthlyIncome, avgMonthlyExpenses, savingsRate) ==
    IF monthlyIncome.num = 0
    THEN <<[type |-> "warning", priority |-> "high"]>>
    ELSE (IF Below(savingsRate, 0)
          THEN <<[type |-> "critical", priority |-> "critical"]>>
          ELSE IF Below(savingsRate, 10)
          THEN <<[type |-> "warning", priority |-> "high"]>>
          ELSE IF ~Below(savingsRate, 20)
          THEN <<[type |-> "success", priority |-> "low"]>>
          ELSE << >>)
         \o (IF avgMonthlyExpenses * monthlyIncome.den * 100 > 80 * monthlyIncome.num
             THEN <<[type |-> "warning", priority |-> "medium"]>>
             ELSE << >>)

\* The insights of the analysis for the user's income roll-up and average
\* monthly expenses avg.
FinancialInsights(I, user, t, avg) ==
    LET totalIncome == GetIncomeSummary(I, user, t)
    IN  GenerateFinancialInsights(totalIncome.totalMonthly, avg,
                                  SavingsRate(totalIncome.totalMonthly, avg))

\* A goal as createGoal stores it (initial amount c, see CreateGoal), with its
\* deadline.
InsightGoal(user, c, autoSave, deadline) ==
    LET goal == PreSaveGoal(NewGoal(user, InsightTarget, c, autoSave), 0)
        stored == IF c > 0
                  THEN SaveGoal(goal, goal, AddContribution(goal, c, "manual"), 0)
                  ELSE goal
    IN  stored @@ ("deadline" :> deadline)

\* The income sources present: none, or one created by createIncome.
InsightIncomes ==
    {<< >>} \cup
    {("i1" :> NewIncome("u1", a, f, NoDate)) :
        a \in {1}, f \in {"weekly", "monthly"}}

InitInsights ==
    /\ now = 0
    /\ expenses = << >>
    /\ budgets = << >>
    /\ totalExpenses = 0
    /\ \E c1 \in InsightInitialAmounts, c2 \in {0, 4},
          a1 \in InsightAutoSaves, d1 \in InsightDeadlines :
          goals = ("g1" :> InsightGoal("u1", c1, a1, d1))
                  @@ ("g2" :> InsightGoal("u1", c2, NoAutoSave, 31))
    /\ reqs = [r \in ReqIds |-> Idle]
    /\ incomes \in InsightIncomes
    /\ currentIncome = UpdateUserTotalIncome(incomes, "u1", 0)

NextInsights ==
    \/ \E u \in Users : GetGoalInsights("r1", u)
    \/ \E u \in Users, i \in DOMAIN BatchGoalIds : ContributeToGoal(u, BatchGoalIds[i], 1)
    \/ Tick

SpecInsights == InitInsights /\ [][NextInsights]_vars

\* No insight is followed by one the comparator puts before it.
Ordered(list) ==
    \A i \in 1 .. Len(list) - 1 : ComparePriority(list[i], list[i + 1]) <= 0

\* Position of insight x in list.
Position(list, x) == CHOOSE k \in 1 .. Len(list) : list[k] = x

----------------------------------------------------------------------------
(* createGoal with an initial amount *)

\* C27: createGoal with an initial currentAmount c > 0 yields a goal whose
\* currentAmount is min(c, targetAmount) and whose contribution log holds
\* exactly one entry, of that same amount, so that the log sum equals
\* currentAmount right after creation.
C27_InitialAmountCountedOnce ==
    [][\A u \in Users, t \in GoalTargets, c \in InitialAmounts, a \in AutoSaves :
          (c > 0 /\ CreateGoal(u, t, c, a)) =>
              LET goal == goals'[FreshGoalId(goals)]
              IN  /\ goal.currentAmount = Min(c, t)
                  /\ Len(goal.contributions) = 1
                  /\ goal.contributions[1].amount = Min(c, t)
                  /\ SumLog(goal.contributions) = goal.currentAmount]_vars

----------------------------------------------------------------------------
(* updateGoal changing the target of a goal that already holds money.  Goals
   are created empty here, so that every amount comes from contributions. *)

RetargetAmounts == {1, 2, 3}

NextRetarget ==
    \/ \E u \in Users, t \in GoalTargets, a \in AutoSaves : CreateGoal(u, t, 0, a)
    \/ \E u \in Users, g \in GoalIds, a \in ContributionAmounts : ContributeToGoal(u, g, a)
    \/ \E u \in Users, g \in GoalIds, t \in RetargetAmounts :
          UpdateGoal(u, g, "targetAmount", t)
    \/ \E u \in Users, g \in GoalIds : DeleteGoal(u, g)
    \/ TickGoal

SpecRetarget == Init /\ [][NextRetarget]_vars

\* C28: an updateGoal that changes targetAmount on a not-yet-completed goal
\* never leaves the goal with currentAmount > targetAmount, and never leaves
\* isCompleted = false while currentAmount >= targetAmount.
C28_RetargetKeepsClamp ==
    [][\A u \in Users, g \in GoalIds, t \in RetargetAmounts :
          UpdateGoal(u, g, "targetAmount", t) =>
              /\ goals'[g].currentAmount <= goals'[g].targetAmount
              /\ goals'[g].currentAmount >= goals'[g].targetAmount
                    => goals'[g].isCompleted]_vars

----------------------------------------------------------------------------
(* Thresholds of a budget made by duplicateBudget or by a createBudget whose
   body carries alerts *)

NextDuplicate ==
    \/ \E u \in Users, c \in BudgetCategories, a \in BudgetAmounts, p \in LedgerPeriods,
          th \in AlertInputs :
          CreateBudgetWithAlerts(BudgetIds, u, c, a, p, th)
    \/ \E u \in Users, src \in BudgetIds, s \in Dates, e \in Dates :
          DuplicateBudget(BudgetIds, u, src, s, e)
    \/ \E u \in Users, a \in ExpenseAmounts, c \in Categories :
          CreateExpense(u, a, c, NoDate)
    \/ \E u \in Users, id \in ExpenseIds : DeleteExpense(u, id)
    \/ \E u \in Users, b \in BudgetIds : DeleteBudget(u, b)
    \/ Tick

SpecDuplicate == Init /\ [][NextDuplicate]_vars

\* C29: a threshold is triggered only if this budget's own percentageUsed
\* reached its percentage earlier: a budget produced by duplicateBudget starts
\* with spent = 0, a budget produced by duplicateBudget or by createBudget with
\* caller-supplied alerts starts with every threshold untriggered and without a
\* triggeredAt, and in every state triggered = true implies triggeredAt is set.
C29_ThresholdsStartUntriggered ==
    [][/\ (\E u \in Users, src \in BudgetIds, s \in Dates, e \in Dates :
              DuplicateBudget(BudgetIds, u, src, s, e))
          => \A b \in DOMAIN budgets' \ DOMAIN budgets : budgets'[b].spent = 0
       /\ \A b \in DOMAIN budgets' \ DOMAIN budgets :
             \A i \in 1 .. Len(budgets'[b].thresholds) :
                /\ ~budgets'[b].thresholds[i].triggered
                /\ budgets'[b].thresholds[i].triggeredAt = NoDate
       /\ \A b \in DOMAIN budgets' :
             \A i \in 1 .. Len(budgets'[b].thresholds) :
                budgets'[b].thresholds[i].triggered
                   => budgets'[b].thresholds[i].triggeredAt # NoDate]_vars

----------------------------------------------------------------------------
(* Expense deletion with its storage awaits as separate steps *)

\* deleteExpense up to the call of updateBudgetSpending: Expense.findOne.
BeginDeleteExpense(r, user, id) ==
    /\ reqs[r] = Idle
    /\ id \in DOMAIN expenses
    /\ expenses[id].user = user
    /\ reqs' = [reqs EXCEPT ![r] =
                  [op |-> "deleteExpense", pc |-> "findCategory", user |-> user,
                   expense |-> id, category |-> expenses[id].category,
                   amount |-> 0 - expenses[id].amount]]
    /\ UNCHANGED <<now, expenses, budgets, totalExpenses, goals, incomes, currentIncome>>

\* updateBudgetSpending called by deleteExpense: one of its two Budget.findOne
\* calls.
FindBudgetToReverse(r) ==
    /\ reqs[r].op = "deleteExpense"
    /\ reqs[r].pc \in {"findCategory", "findTotal"}
    /\ LET q == reqs[r]
           category == IF q.pc = "findCategory" THEN q.category ELSE "total"
       IN  \E b \in FindOne(CurrentBudgets(budgets, q.user, category, now)) :
              reqs' = [reqs EXCEPT ![r] =
                 IF b # NoBudget
                 THEN [op |-> q.op, user |-> q.user, expense |-> q.expense,
                       category |-> q.category, amount |-> q.amount,
                       budget |-> b, doc |-> budgets[b],
                       pc |-> IF q.pc = "findCategory" THEN "saveCategory"
                              ELSE "saveTotal"]
                 ELSE IF q.pc = "findCategory"
                 THEN [q EXCEPT !.pc = "findTotal"]
                 ELSE [q EXCEPT !.pc = "decrement"]]
    /\ UNCHANGED <<now, expenses, budgets, totalExpenses, goals, incomes, currentIncome>>

\* updateBudgetSpending called by deleteExpense: budget.updateSpent(-amount, 0)
\* on the document found.
SaveReversal(r) ==
    /\ reqs[r].op = "deleteExpense"
    /\ reqs[r].pc \in {"saveCategory", "saveTotal"}
    /\ LET q == reqs[r]
           modified == UpdateSpent(q.doc, q.amount, 0, now)
           next == [op |-> q.op, user |-> q.user, expense |-> q.expense,
                    category |-> q.category, amount |-> q.amount,
                    pc |-> IF q.pc = "saveCategory" THEN "findTotal" ELSE "decrement"]
       IN  /\ budgets' = IF q.budget \in DOMAIN budgets
                         THEN [budgets EXCEPT ![q.budget] =
                                 SaveBudget(budgets[q.budget], q.doc, modified)]
                         ELSE budgets
           /\ reqs' = [reqs EXCEPT ![r] = next]
    /\ UNCHANGED <<now, expenses, totalExpenses, goals, incomes, currentIncome>>

\* deleteExpense: User.findByIdAndUpdate with $inc stats.totalExpenses -1.
DecrementTotalExpenses(r) ==
    /\ reqs[r].op = "deleteExpense"
    /\ reqs[r].pc = "decrement"
    /\ totalExpenses' = totalExpenses - 1
    /\ reqs' = [reqs EXCEPT ![r].pc = "deleteOne"]
    /\ UNCHANGED <<now, expenses, budgets, goals, incomes, currentIncome>>

\* deleteExpense: expense.deleteOne() and the response; deleting a document that
\* is already gone changes nothing.
FinishDeleteExpense(r) ==
    /\ reqs[r].op = "deleteExpense"
    /\ reqs[r].pc = "deleteOne"
    /\ expenses' = [e \in DOMAIN expenses \ {reqs[r].expense} |-> expenses[e]]
    /\ reqs' = [reqs EXCEPT ![r] = Idle]
    /\ UNCHANGED <<now, budgets, totalExpenses, goals, incomes, currentIncome>>

\* A current budget and two expenses of day 0 in its scope, made by createBudget
\* and two createExpense requests run one after the other.
InitDeleteRace ==
    /\ now = 0
    /\ \E a1 \in ExpenseAmounts, a2 \in ExpenseAmounts, c \in BudgetCategories :
          /\ expenses =
                ("e1" :> [user |-> "u1", amount |-> a1, category |-> "food",
                          date |-> 0, status |-> "completed"])
                @@ ("e2" :> [user |-> "u1", amount |-> a2, category |-> "food",
                             date |-> 0, status |-> "completed"])
          /\ budgets =
                ("b1" :> UpdateSpent(
                            UpdateSpent(NewBudget("u1", c, 4, NoDate, NoDate, "monthly", 0),
                                        a1, 0, 0),
                            a2, 0, 0))
    /\ totalExpenses = 2
    /\ goals = << >>
    /\ reqs = [r \in ReqIds |-> Idle]
    /\ incomes = << >>
    /\ currentIncome = NoIncome

\* The requests all name expense e1: the client sends its delete twice.
NextDeleteRace ==
    \/ \E r \in ReqIds, u \in Users : BeginDeleteExpense(r, u, "e1")
    \/ \E r \in ReqIds : FindBudgetToReverse(r)
    \/ \E r \in ReqIds : SaveReversal(r)
    \/ \E r \in ReqIds : DecrementTotalExpenses(r)
    \/ \E r \in ReqIds : FinishDeleteExpense(r)

SpecDeleteRace == InitDeleteRace /\ [][NextDeleteRace]_vars

\* C30: an expense's amount is reversed from its budgets at most once.  When
\* two interleaved deleteExpense requests for the same expense have completed,
\* every budget's spent equals the ledger sum and totalExpenses equals the
\* number of the user's expenses.
C30_ExpenseReversedOnce ==
    Quiescent =>
        /\ \A b \in DOMAIN budgets : Converged(budgets, expenses, b)
        /\ totalExpenses = Cardinality(DOMAIN expenses)

====
